---- MODULE Spec2Model ----
(***************************************************************************)
(* HighFinesse wavemeter controller: the driver object (driver.py) and the *)
(* process entry point (aqctl_highfinesse.py).                             *)
(*                                                                         *)
(* Python values are written as their repr in a string ("None", "True",    *)
(* "'COM1'"); floats are decimal records [m, e] standing for m * 10^e, in  *)
(* normal form (m not a multiple of 10, zero is [0, 0]).  The driver       *)
(* object is the function `self` from the attribute names it has to their  *)
(* values, so an attribute that was never assigned is absent from DOMAIN.  *)
(* `libCalled` is the set of vendor-library functions called by the most   *)
(* recent step, `last` the outcome of the most recent operation.           *)
(***************************************************************************)
EXTENDS Integers, Sequences, FiniteSets, TLC

VARIABLES pc, entry, args, exitStatus, events, instr, self, ctor, libCalled, last

vars == <<pc, entry, args, exitStatus, events, instr, self, ctor, libCalled, last>>

(* ------------------------------ bounds -------------------------------- *)
ModelSlack == 1
MaxRaw == 3
MaxErrCode == 5
NumFlagBits == 2

(* --------------------------- python values ---------------------------- *)
Truthy(v) == v \notin {"None", "False", "''"}

RECURSIVE Norm(_, _)
Norm(m, e) ==
    IF m = 0 THEN [m |-> 0, e |-> 0]
    ELSE IF m % 10 = 0 THEN Norm(m \div 10, e + 1)
    ELSE [m |-> m, e |-> e]

Dec(m, e) == Norm(m, e)
Zero == Dec(0, 0)
IsNegative(x) == x.m < 0
IsPositive(x) == x.m > 0
Times1e12(x) == Norm(x.m, x.e + 12)

(* ----------------------- wlm_constants (vendor) ----------------------- *)
ErrLowSignal == -3
ErrBigSignal == -4
FlagNames == <<"flServerStarted", "flErrDeviceNotFound", "flErrDriverError",
               "flErrUSBError", "flErrUnknownDeviceError", "flErrWrongSN">>
RECURSIVE Pow2(_)
Pow2(n) == IF n = 0 THEN 1 ELSE 2 * Pow2(n - 1)
control_wlm_to_str(res) ==
    {FlagNames[i] : i \in {j \in 1..Len(FlagNames) : (res \div Pow2(j - 1)) % 2 = 1}}

(* ------------------------ WLMMeasurementStatus ------------------------ *)
OKAY == 0
UNDER_EXPOSED == 1
OVER_EXPOSED == 2
ERROR == 3

(* ------------------------------ inputs -------------------------------- *)
MinModel == 5
MaxModel == 10
TwoCcdModel == 7
Models == (MinModel - ModelSlack)..(MaxModel + ModelSlack)
Devices == {"None", "''", "'COM1'"}
CtrlResults == 0..(Pow2(NumFlagBits) - 1)
RawValues == {Dec(m, e) : m \in (-MaxErrCode)..MaxRaw, e \in {-1, 0}}
RawReadings == RawValues \cup {Dec(-1006, 0), Dec(235, -1), Dec(101325, -2)}
Channels == {"0", "1", "2", "3", "'a'"}
IsIntArg(ch) == ch # "'a'"
HookOutcomes == {"ok", "error", "cancelled"}

NoResult == [op |-> "none", ch |-> "none", libk |-> "none", raw |-> Zero,
             outcome |-> "none",
             exc |-> "none", kind |-> "none", status |-> -1, val |-> Zero,
             text |-> "", fmt |-> <<>>]
NoHandshake == [probed |-> FALSE, running |-> FALSE, issued |-> FALSE, res |-> 0,
                codes |-> {}, warned |-> {}, failed |-> FALSE]
NotConstructed == [done |-> FALSE, loaded |-> FALSE, hs |-> NoHandshake,
                   idCoroutine |-> "none", exc |-> "none"]

Init ==
    /\ pc = "start"
    /\ entry = "none"
    /\ args = [simulation |-> FALSE, device |-> "None"]
    /\ exitStatus = -1
    /\ events = <<>>
    /\ instr \in [model : Models, hw_rev : {1}, fw_rev : {2}, fw_build : {7}]
    /\ self = <<>>
    /\ ctor = NotConstructed
    /\ libCalled = {}
    /\ last = NoResult

(* ------------------------- HighFinesse.__init__ ----------------------- *)
\* Mutant: any flag besides flServerStarted fails the handshake.
HandshakeFails_strict(codes) == codes # {"flServerStarted"}

\* driver.py 71-84: probe the vendor server, start it when it is not running
HandshakeFails(codes) == "flServerStarted" \notin codes

Handshake(running, res) ==
    IF running
    THEN [probed |-> TRUE, running |-> TRUE, issued |-> FALSE, res |-> 0,
          codes |-> {}, warned |-> {}, failed |-> FALSE]
    ELSE LET codes == control_wlm_to_str(res) IN
         [probed |-> TRUE, running |-> FALSE, issued |-> TRUE, res |-> res,
          codes |-> codes,
          warned |-> IF HandshakeFails(codes) THEN {} ELSE codes \ {"flServerStarted"},
          failed |-> HandshakeFails(codes)]

\* driver.py 87: `self.id()` calls an `async def` without awaiting it: the call
\* builds a coroutine object whose body never runs, and the object is dropped.
CallWithoutAwait == "created_never_awaited"

\* The object after __init__, as the attributes assigned on the path taken.
InitSelf(simArg, loadable) ==
    IF Truthy(simArg) \/ ~loadable
    THEN [simulation |-> simArg]
    ELSE [simulation |-> simArg, lib |-> "wlmData", wlm_model |-> -1,
          wlm_hw_rev |-> -1, wlm_fw_rev |-> -1, wlm_fw_build |-> -1]

InitRecord(simArg, loadable, running, res) ==
    IF Truthy(simArg)
    THEN [done |-> TRUE, loaded |-> FALSE, hs |-> NoHandshake,
          idCoroutine |-> "none", exc |-> "none"]
    ELSE IF ~loadable
    THEN [done |-> FALSE, loaded |-> FALSE, hs |-> NoHandshake,
          idCoroutine |-> "none", exc |-> "WLMException: Failed to load WLM DLL"]
    ELSE LET h == Handshake(running, res) IN
         IF h.failed
         THEN [done |-> FALSE, loaded |-> TRUE, hs |-> h, idCoroutine |-> "none",
               exc |-> "WLMException: Error starting WLM server application"]
         ELSE [done |-> TRUE, loaded |-> TRUE, hs |-> h,
               idCoroutine |-> CallWithoutAwait, exc |-> "none"]

InitLibCalls(c) ==
    IF ~c.hs.probed THEN {}
    ELSE IF c.hs.issued THEN {"Instantiate", "ControlWLMEx"} ELSE {"Instantiate"}

Construct(simArg, okPc, failPc, failStatus) ==
    \E loadable \in BOOLEAN, running \in BOOLEAN, res \in CtrlResults :
        LET c == InitRecord(simArg, loadable, running, res) IN
        /\ ctor' = c
        /\ self' = InitSelf(simArg, loadable)
        /\ libCalled' = InitLibCalls(c)
        /\ pc' = IF c.done THEN okPc ELSE failPc
        /\ events' = IF c.done THEN Append(events, "construct") ELSE events
        /\ exitStatus' = IF c.done THEN exitStatus ELSE failStatus

(* ------------------------- aqctl_highfinesse.main --------------------- *)
\* aqctl_highfinesse.py 34-43
MainParseArgs ==
    /\ pc = "start"
    /\ \E sim \in BOOLEAN, dev \in Devices :
        /\ args' = [simulation |-> sim, device |-> dev]
        /\ IF ~sim /\ dev = "None"
           THEN pc' = "usage_exit" /\ exitStatus' = 1
           ELSE pc' = "construct" /\ exitStatus' = exitStatus
    /\ entry' = "main"
    /\ UNCHANGED <<events, instr, self, ctor, libCalled, last>>

\* aqctl_highfinesse.py 45: the value passed as the `simulation` parameter
SimulationArg(a) == IF ~a.simulation THEN a.device ELSE "None"

MainConstruct ==
    /\ pc = "construct"
    /\ Construct(SimulationArg(args), "init", "ctor_failed", 1)
    /\ UNCHANGED <<entry, args, instr, last>>

\* aqctl_highfinesse.py 46
MainInit ==
    /\ pc = "init"
    /\ \E o \in HookOutcomes :
        IF o = "ok"
        THEN pc' = "serve" /\ events' = Append(events, "init") /\ exitStatus' = exitStatus
        ELSE pc' = "init_failed" /\ events' = events /\ exitStatus' = 1
    /\ UNCHANGED <<entry, args, instr, self, ctor, libCalled, last>>

\* aqctl_highfinesse.py 47-49: entering simple_server_loop
MainServe ==
    /\ pc = "serve"
    /\ pc' = "serving"
    /\ events' = Append(events, "serve")
    /\ UNCHANGED <<entry, args, exitStatus, instr, self, ctor, libCalled, last>>

\* Mutant: close() after the loop instead of in `finally`.
ServerLoopEnds_noFinally ==
    /\ pc = "serving"
    /\ \E how \in {"return", "raise"} :
        /\ exitStatus' = IF how = "return" THEN 0 ELSE 1
        /\ events' = IF how = "return" THEN Append(events, "close") ELSE events
    /\ pc' = "exited"
    /\ UNCHANGED <<entry, args, instr, self, ctor, libCalled, last>>

\* aqctl_highfinesse.py 47-51: the loop returns or raises, `finally` closes
ServerLoopEnds ==
    /\ pc = "serving"
    /\ \E how \in {"return", "raise"} :
        exitStatus' = IF how = "return" THEN 0 ELSE 1
    /\ events' = Append(events, "close")
    /\ pc' = "exited"
    /\ UNCHANGED <<entry, args, instr, self, ctor, libCalled, last>>

\* The class used as a library: HighFinesse(simulation=...)
DirectConstruct ==
    /\ pc = "start"
    /\ entry' = "direct"
    /\ \E simArg \in {"True", "False"} : Construct(simArg, "constructed", "ctor_failed", exitStatus)
    /\ UNCHANGED <<args, instr, last>>

Live == \/ entry = "main" /\ pc = "serving"
        \/ entry = "direct" /\ pc = "constructed"

(* --------------------------- result records --------------------------- *)
Returns(op, ch, libk, raw, kind, status, val, text, fmt) ==
    [op |-> op, ch |-> ch, libk |-> libk, raw |-> raw, outcome |-> "return",
     exc |-> "none", kind |-> kind, status |-> status, val |-> val,
     text |-> text, fmt |-> fmt]
Raises(op, ch, libk, raw, exc, text) ==
    [op |-> op, ch |-> ch, libk |-> libk, raw |-> raw, outcome |-> "raise",
     exc |-> exc, kind |-> "none", status |-> -1, val |-> Zero,
     text |-> text, fmt |-> <<>>]

IsSimulation(s) == Truthy(s.simulation)

(* ------------------------------ id ------------------------------------ *)
\* driver.py 107
UnrecognisedModel(model) == model < MinModel \/ model > MaxModel
\* driver.py 112
NumCcds(model) == IF model >= TwoCcdModel THEN 2 ELSE 1

\* driver.py 102-112: the attributes id() assigns before it returns or raises
id_self(s, i) ==
    IF IsSimulation(s) THEN s
    ELSE LET read == [wlm_model |-> i.model, wlm_hw_rev |-> i.hw_rev,
                      wlm_fw_rev |-> i.fw_rev, wlm_fw_build |-> i.fw_build]
         IN IF UnrecognisedModel(i.model)
            THEN read @@ s
            ELSE ("num_ccds" :> NumCcds(i.model)) @@ read @@ s

id_result(s, i) ==
    IF IsSimulation(s)
    THEN Returns("id", "none", "none", Zero, "str", -1, Zero, "WLM simulator", <<>>)
    ELSE IF UnrecognisedModel(i.model)
    THEN Raises("id", "none", "none", Zero, "WLMException", "Unrecognised WLM model")
    ELSE Returns("id", "none", "none", Zero, "str", -1, Zero,
                 "WLM {} rev {}, firmware {}.{}",
                 <<i.model, i.hw_rev, i.fw_rev, i.fw_build>>)

Id ==
    /\ Live
    /\ self' = id_self(self, instr)
    /\ last' = id_result(self, instr)
    /\ libCalled' = IF IsSimulation(self) THEN {}
                    ELSE {"GetWLMVersion"}
    /\ UNCHANGED <<pc, entry, args, exitStatus, events, instr, ctor>>

(* ----------------------- init, close, get_status ---------------------- *)
\* The bodies of the async hooks are placeholders (`pass`); what awaiting one
\* yields is an input: it completes, raises an error, or is cancelled.
HookResult(op, o) ==
    IF o = "ok" THEN Returns(op, "none", "none", Zero, "None", -1, Zero, "None", <<>>)
    ELSE IF o = "cancelled"
    THEN Raises(op, "none", "none", Zero, "CancelledError", "")
    ELSE Raises(op, "none", "none", Zero, "Exception", "")

InitHook ==
    /\ Live
    /\ \E o \in HookOutcomes : last' = HookResult("init", o)
    /\ libCalled' = {}
    /\ UNCHANGED <<pc, entry, args, exitStatus, events, instr, self, ctor>>

Close ==
    /\ Live
    /\ last' = Returns("close", "none", "none", Zero, "None", -1, Zero, "None", <<>>)
    /\ libCalled' = {}
    /\ UNCHANGED <<pc, entry, args, exitStatus, events, instr, self, ctor>>

GetStatus ==
    /\ Live
    /\ \E o \in HookOutcomes : last' = HookResult("get_status", o)
    /\ libCalled' = {}
    /\ UNCHANGED <<pc, entry, args, exitStatus, events, instr, self, ctor>>

(* ------------------------------ ping ---------------------------------- *)
\* driver.py 123-135; o is what `await self.get_status()` yields
ping_result(s, o) ==
    IF IsSimulation(s)
    THEN Returns("ping", "none", "none", Zero, "bool", -1, Zero, "True", <<>>)
    ELSE IF o = "cancelled"
    THEN Raises("ping", "none", o, Zero, "CancelledError", "")
    ELSE IF o = "error"
    THEN Raises("ping", "none", o, Zero, "WLMException", "ping failed")
    ELSE Returns("ping", "none", o, Zero, "bool", -1, Zero, "True", <<>>)

Ping ==
    /\ Live
    /\ \E o \in HookOutcomes : last' = ping_result(self, o)
    /\ libCalled' = {}
    /\ UNCHANGED <<pc, entry, args, exitStatus, events, instr, self, ctor>>

(* ----------------- get_temperature and get_pressure ------------------- *)
\* Mutant: zero is treated as an error reading too.
get_temperature_result_le(s, temp) ==
    IF IsSimulation(s)
    THEN Returns("get_temperature", "none", "none", Zero, "float", -1,
                 Dec(25, 0), "", <<>>)
    ELSE IF ~IsPositive(temp)
    THEN Raises("get_temperature", "none", "value", temp, "WLMException",
                "Error reading WLM temperature")
    ELSE Returns("get_temperature", "none", "value", temp, "float", -1, temp, "", <<>>)

\* driver.py 137-146
get_temperature_result(s, temp) ==
    IF IsSimulation(s)
    THEN Returns("get_temperature", "none", "none", Zero, "float", -1,
                 Dec(25, 0), "", <<>>)
    ELSE IF IsNegative(temp)
    THEN Raises("get_temperature", "none", "value", temp, "WLMException",
                "Error reading WLM temperature")
    ELSE Returns("get_temperature", "none", "value", temp, "float", -1, temp, "", <<>>)

\* Mutant: the simulation guard is missing.
get_pressure_result_unguarded(s, pressure) ==
    IF IsNegative(pressure)
    THEN Raises("get_pressure", "none", "value", pressure, "WLMException",
                "Error reading WLM pressure")
    ELSE Returns("get_pressure", "none", "value", pressure, "float", -1, pressure,
                 "", <<>>)

\* driver.py 148-160
get_pressure_result(s, pressure) ==
    IF IsSimulation(s)
    THEN Returns("get_pressure", "none", "none", Zero, "float", -1,
                 Dec(101325, -2), "", <<>>)
    ELSE IF IsNegative(pressure)
    THEN Raises("get_pressure", "none", "value", pressure, "WLMException",
                "Error reading WLM pressure")
    ELSE Returns("get_pressure", "none", "value", pressure, "float", -1, pressure,
                 "", <<>>)

GetTemperature ==
    /\ Live
    /\ \E temp \in RawReadings : last' = get_temperature_result(self, temp)
    /\ libCalled' = IF last'.libk = "none" THEN {} ELSE {"GetTemperature"}
    /\ UNCHANGED <<pc, entry, args, exitStatus, events, instr, self, ctor>>

GetPressure ==
    /\ Live
    /\ \E pressure \in RawReadings : last' = get_pressure_result(self, pressure)
    /\ libCalled' = IF last'.libk = "none" THEN {} ELSE {"GetPressure"}
    /\ UNCHANGED <<pc, entry, args, exitStatus, events, instr, self, ctor>>

(* --------------------------- get_frequency ---------------------------- *)
\* What lib.GetFrequencyNum(ch, 0) can do: return a double, or raise.  A channel
\* that is no integer fails the c_long conversion declared at driver.py 69.
LibFrequencyOutcomes(ch) ==
    IF ~IsIntArg(ch)
    THEN {[k |-> "raise", exc |-> "ArgumentError", raw |-> Zero]}
    ELSE {[k |-> "value", exc |-> "none", raw |-> r] : r \in RawValues}
         \cup {[k |-> "raise", exc |-> e, raw |-> Zero] : e \in {"OSError", "WLMException"}}

\* driver.py 177: the exception classes the handler catches
Caught(exc) == exc = "WLMException"

\* Mutant: the two exposure sentinels are swapped.
DecodeFrequency_swapped(freq) ==
    IF IsPositive(freq) THEN [status |-> OKAY, val |-> Times1e12(freq)]
    ELSE IF freq = Dec(ErrBigSignal, 0) THEN [status |-> UNDER_EXPOSED, val |-> Zero]
    ELSE IF freq = Dec(ErrLowSignal, 0) THEN [status |-> OVER_EXPOSED, val |-> Zero]
    ELSE [status |-> ERROR, val |-> Zero]

\* driver.py 181-192
DecodeFrequency(freq) ==
    IF IsPositive(freq) THEN [status |-> OKAY, val |-> Times1e12(freq)]
    ELSE IF freq = Dec(ErrBigSignal, 0) THEN [status |-> OVER_EXPOSED, val |-> Zero]
    ELSE IF freq = Dec(ErrLowSignal, 0) THEN [status |-> UNDER_EXPOSED, val |-> Zero]
    ELSE [status |-> ERROR, val |-> Zero]

\* driver.py 162-192
get_frequency_result(s, ch, lo) ==
    IF IsSimulation(s)
    THEN Returns("get_frequency", ch, "none", Zero, "pair", OKAY,
                 Dec(123456789, 6), "", <<>>)
    ELSE IF lo.k = "raise"
    THEN IF Caught(lo.exc)
         THEN Returns("get_frequency", ch, "raise", Zero, "pair", ERROR, Zero,
                      lo.exc, <<>>)
         ELSE Raises("get_frequency", ch, "raise", Zero, lo.exc, "")
    ELSE LET d == DecodeFrequency(lo.raw) IN
         Returns("get_frequency", ch, "value", lo.raw, "pair", d.status, d.val,
                 "", <<>>)

GetFrequency ==
    /\ Live
    /\ \E ch \in Channels : \E lo \in LibFrequencyOutcomes(ch) :
        last' = get_frequency_result(self, ch, lo)
    /\ libCalled' = IF last'.libk = "none" THEN {} ELSE {"GetFrequencyNum"}
    /\ UNCHANGED <<pc, entry, args, exitStatus, events, instr, self, ctor>>

Next ==
    \/ MainParseArgs
    \/ MainConstruct
    \/ MainInit
    \/ MainServe
    \/ ServerLoopEnds
    \/ DirectConstruct
    \/ Id
    \/ InitHook
    \/ Close
    \/ GetStatus
    \/ Ping
    \/ GetTemperature
    \/ GetPressure
    \/ GetFrequency

Spec == Init /\ [][Next]_vars

(* ============================== claims ================================ *)
Constructed == ctor.done
NonSimulation == Constructed /\ ~Truthy(self.simulation)
Simulation == Constructed /\ Truthy(self.simulation)
NonSimCall(op) == last.op = op /\ ~Truthy(self.simulation)

\* C1: in non-simulation mode a raw frequency r gives (OKAY, r*1e12) when r > 0,
\* (OVER_EXPOSED, 0) for ErrBigSignal, (UNDER_EXPOSED, 0) for ErrLowSignal and
\* (ERROR, 0) for every other non-positive r; a non-OKAY status comes with 0.
C1_FrequencyDecode ==
    (NonSimCall("get_frequency") /\ last.libk = "value") =>
        /\ last.outcome = "return" /\ last.kind = "pair"
        /\ last.status \in {OKAY, UNDER_EXPOSED, OVER_EXPOSED, ERROR}
        /\ last.raw.m > 0 =>
              /\ last.status = 0
              /\ last.val = [m |-> last.raw.m, e |-> last.raw.e + 12]
        /\ last.raw = [m |-> -4, e |-> 0] => last.status = 2 /\ last.val.m = 0
        /\ last.raw = [m |-> -3, e |-> 0] => last.status = 1 /\ last.val.m = 0
        /\ (last.raw.m <= 0 /\ last.raw \notin {[m |-> -4, e |-> 0], [m |-> -3, e |-> 0]})
              => last.status = 3 /\ last.val.m = 0
        /\ last.status # 0 => last.val = Zero

C1_Witness ==
    /\ NonSimCall("get_frequency")
    /\ last.raw = [m |-> -4, e |-> 0]
    /\ last.status = OVER_EXPOSED

\* C2: get_frequency never propagates a fault: whatever the channel and however
\* the library read fails, the call returns a pair, (ERROR, 0) when the read raises.
C2_NoFaultPropagates ==
    last.op = "get_frequency" =>
        /\ last.outcome = "return"
        /\ last.libk = "raise" => last.status = ERROR /\ last.val = Zero

\* C3: non-simulation construction performs the identity read: models 5..6 give
\* channel count 1, models 7..10 give 2, and any other model fails construction.
C3_ConstructionReadsIdentity ==
    NonSimulation =>
        /\ instr.model \in 5..10
        /\ "num_ccds" \in DOMAIN self
        /\ instr.model \in 5..6 => self.num_ccds = 1
        /\ instr.model \in 7..10 => self.num_ccds = 2

\* C4: ping returns True when the status check succeeds, returns False without
\* raising when it raises a non-cancellation error, re-raises on cancellation.
C4_PingDowngradesErrors ==
    NonSimCall("ping") =>
        /\ last.libk = "ok" => last.outcome = "return" /\ last.text = "True"
        /\ last.libk = "error" => last.outcome = "return" /\ last.text = "False"
        /\ last.libk = "cancelled" =>
              last.outcome = "raise" /\ last.exc = "CancelledError"

\* C5: started with the simulation toggle the adapter is built in simulation
\* mode and the vendor library is never loaded; with a device path and no
\* toggle it is built in non-simulation mode; with neither the process exits
\* with status 1 and builds no adapter.
C5_ModeFromArguments ==
    entry = "main" =>
        /\ (Constructed /\ args.simulation) =>
              Truthy(self.simulation) /\ ~ctor.loaded /\ "lib" \notin DOMAIN self
        /\ (~Constructed /\ args.simulation) => ctor.exc = "none"
        /\ (Constructed /\ ~args.simulation) => ~Truthy(self.simulation)
        /\ (~args.simulation /\ args.device = "None") =>
              pc = "usage_exit" /\ exitStatus = 1 /\ ~Constructed /\ self = <<>>

\* C6: in simulation mode, whatever was called before and for any channel,
\* get_temperature is 25.0, get_pressure 1013.25, get_frequency (0, 123.456789e12),
\* id "WLM simulator" and ping True, and the library handle does not exist and is
\* never called.
C6_SimulationFixedValues ==
    Simulation =>
        /\ "lib" \notin DOMAIN self /\ libCalled = {} /\ ~ctor.loaded
        /\ last.op \in {"id", "ping", "get_temperature", "get_pressure",
                        "get_frequency"} => last.outcome = "return"
        /\ last.op = "get_temperature" => last.val = [m |-> 25, e |-> 0]
        /\ last.op = "get_pressure" => last.val = [m |-> 101325, e |-> -2]
        /\ last.op = "get_frequency" =>
              last.status = 0 /\ last.val = [m |-> 123456789, e |-> 6]
        /\ last.op = "id" => last.text = "WLM simulator"
        /\ last.op = "ping" => last.text = "True"

C6_Witness ==
    /\ Simulation
    /\ last.op = "get_pressure"
    /\ last.val = [m |-> 101325, e |-> -2]

\* C7: in non-simulation mode get_temperature and get_pressure raise WLMException
\* exactly when the raw reading is negative, return every non-negative reading
\* (0 included) unchanged, and leave the adapter's state as it was.
C7_ReadingResult ==
    (NonSimCall("get_temperature") \/ NonSimCall("get_pressure")) =>
        /\ last.libk = "value"
        /\ (last.outcome = "raise") <=> (last.raw.m < 0)
        /\ last.outcome = "raise" => last.exc = "WLMException"
        /\ last.outcome = "return" => last.kind = "float" /\ last.val = last.raw

C7_ReadingCall ==
    /\ last' # last
    /\ last'.op \in {"get_temperature", "get_pressure"}

C7_ScalarReads ==
    [][/\ C7_ReadingResult'
       /\ C7_ReadingCall => /\ self' = self /\ ctor' = ctor /\ instr' = instr
                            /\ pc' = pc /\ events' = events]_vars

C7_Witness ==
    /\ NonSimCall("get_temperature")
    /\ last.raw = Zero
    /\ last.outcome = "return"

\* C8: after non-simulation construction the cached model, hardware revision,
\* firmware revision, firmware build and channel count are the instrument's,
\* as read at initialization (so that no later operation changes them).
C8_IdentityCachedAtInit ==
    NonSimulation =>
        /\ self.wlm_model = instr.model
        /\ self.wlm_hw_rev = instr.hw_rev
        /\ self.wlm_fw_rev = instr.fw_rev
        /\ self.wlm_fw_build = instr.fw_build
        /\ "num_ccds" \in DOMAIN self

\* C9: the start-and-wait command is issued iff the probe reports the server not
\* running; once issued, construction fails exactly when the decoded flags lack
\* flServerStarted, other flags are only warned about; with the server already
\* running the handshake cannot fail.
C9_Handshake ==
    ctor.hs.probed =>
        /\ ctor.hs.issued <=> ~ctor.hs.running
        /\ ("ControlWLMEx" \in InitLibCalls(ctor)) <=> ~ctor.hs.running
        /\ ctor.hs.issued =>
              ctor.hs.failed <=> ("flServerStarted" \notin ctor.hs.codes)
        /\ ctor.hs.failed <=> ~ctor.done
        /\ ctor.hs.failed <=> pc = "ctor_failed"
        /\ ~ctor.hs.failed => ctor.hs.warned = ctor.hs.codes \ {"flServerStarted"}
        /\ ctor.hs.running => ~ctor.hs.failed

C9_Witness ==
    /\ ctor.hs.issued
    /\ ctor.done
    /\ ctor.hs.warned # {}

\* C10: in the entry point the order is construct, init, server loop, close: the
\* loop never starts before init completed, close runs exactly once when the
\* loop ends by returning or raising, and a failed construction or init runs
\* neither the loop nor close.
C10_Lifecycle ==
    entry = "main" =>
        /\ \E n \in 0..4 : events = SubSeq(<<"construct", "init", "serve", "close">>, 1, n)
        /\ pc = "serving" => events = <<"construct", "init", "serve">>
        /\ pc = "exited" => events = <<"construct", "init", "serve", "close">>
        /\ pc = "init_failed" => events = <<"construct">>
        /\ pc \in {"ctor_failed", "usage_exit"} => events = <<>>

C10_Witness ==
    /\ pc = "exited"
    /\ exitStatus = 1
    /\ events = <<"construct", "init", "serve", "close">>

====
